---- MODULE Spec2Model ----
(***************************************************************************)
(* A model of organizer.py: the extension -> category resolution, the      *)
(* collision-safe renaming and the single-pass scan of organize_files,     *)
(* called once (Spec), or twice in a row on one target directory          *)
(* (SpecTwice): a preview and the run it announces, or a run and its       *)
(* re-run.                                                                 *)
(*                                                                         *)
(* A file name is a sequence of one-character strings, so that suffix,     *)
(* stem, lower() and the f"{stem}_{counter}{suffix}" formatting are        *)
(* computed as the code computes them.  The filesystem is case-sensitive   *)
(* (POSIX); a category name is a single path component.                    *)
(***************************************************************************)
EXTENDS Integers, Sequences, FiniteSets, TLC

(* ---------------------------------------------------------------------- *)
(* Bounds                                                                 *)
(* ---------------------------------------------------------------------- *)
MaxLoose == 2
MaxPre == 1

(* ---------------------------------------------------------------------- *)
(* Program constants                                                      *)
(* ---------------------------------------------------------------------- *)
CONFIG_FILE_NAME == <<"f","i","l","e","_","t","y","p","e","s",".","j","s","o","n">>
DEFAULT_OTHERS_FOLDER == <<"O","t","h","e","r","s">>
LOG_FILE_NAME == <<"o","r","g","a","n","i","z","e","r",".","l","o","g">>
SCRIPT_NAME == <<"o","r","g","a","n","i","z","e","r",".","p","y">>

(* ---------------------------------------------------------------------- *)
(* The names, extensions and category maps the runs are drawn from        *)
(* ---------------------------------------------------------------------- *)
N_a_p == <<"a",".","p">>
N_a_1_p == <<"a","_","1",".","p">>
N_b_Q == <<"b",".","Q">>
N_x == <<"x">>
CatI == <<"I">>
CatD == <<"D">>

(* the entries of the target other than category folders: at most MaxLoose *)
LooseUniverse ==
  { <<N_a_p, "file">>, <<N_a_1_p, "file">>, <<N_b_Q, "file">>,
    <<N_x, "file">>, <<N_x, "dir">>, <<N_x, "other">>,
    <<DEFAULT_OTHERS_FOLDER, "file">>,
    <<LOG_FILE_NAME, "file">>, <<SCRIPT_NAME, "file">>,
    <<CONFIG_FILE_NAME, "dir">> }

(* the entries the two-call sessions are drawn from *)
TwiceUniverse ==
  { <<N_a_p, "file">>, <<N_a_1_p, "file">>, <<N_b_Q, "file">>,
    <<N_x, "dir">>,
    <<DEFAULT_OTHERS_FOLDER, "file">>,
    <<LOG_FILE_NAME, "file">> }

(* the category folders that may exist beforehand, and the files in them:
   at most MaxPre *)
FolderNames == { CatI, DEFAULT_OTHERS_FOLDER }
ContentDirs == { CatI }
SubNames == { N_a_p, N_a_1_p }

(* a CategoryMap lists some of these categories, in any order *)
MapEntries ==
  { [category |-> CatI, extensions |-> << <<".","P">> >>],
    [category |-> CatD, extensions |-> << <<".","p">>, <<".","q">> >>] }

CategoryMaps ==
  { <<>> }
  \cup { << e >> : e \in MapEntries }
  \cup { << e1, e2 >> : <<e1, e2>> \in { q \in MapEntries \X MapEntries : q[1] # q[2] } }

EmptyMap == [k \in {} |-> {}]

Put(f, k, v) == [x \in DOMAIN f \cup {k} |-> IF x = k THEN v ELSE f[x]]

Remove(f, k) == [x \in DOMAIN f \ {k} |-> f[x]]

(* ---------------------------------------------------------------------- *)
(* str.lower(), Path.suffix, Path.stem, str(int)                          *)
(* ---------------------------------------------------------------------- *)
lower_char(c) ==
  CASE c = "P" -> "p" [] c = "Q" -> "q" [] c = "O" -> "o"
    [] c = "I" -> "i" [] c = "D" -> "d" [] OTHER -> c

lower(s) == IF s = <<>> THEN <<>> ELSE [i \in 1..Len(s) |-> lower_char(s[i])]

rfind_dot(s) ==
  LET idx == { i \in 1..Len(s) : s[i] = "." }
  IN IF idx = {} THEN 0 ELSE CHOOSE i \in idx : \A j \in idx : j <= i

suffix(name) ==
  LET i == rfind_dot(name)
  IN IF i > 1 /\ i < Len(name) THEN SubSeq(name, i, Len(name)) ELSE <<>>

stem(name) ==
  LET i == rfind_dot(name)
  IN IF i > 1 /\ i < Len(name) THEN SubSeq(name, 1, i - 1) ELSE name

digit(d) ==
  CASE d = 0 -> "0" [] d = 1 -> "1" [] d = 2 -> "2" [] d = 3 -> "3" [] d = 4 -> "4"
    [] d = 5 -> "5" [] d = 6 -> "6" [] d = 7 -> "7" [] d = 8 -> "8" [] OTHER -> "9"

RECURSIVE str(_)
str(n) == IF n < 10 THEN << digit(n) >> ELSE str(n \div 10) \o << digit(n % 10) >>

(* f"{stem}_{counter}{suffix}" *)
numbered(st, counter, suf) == st \o << "_" >> \o str(counter) \o suf

(* ---------------------------------------------------------------------- *)
(* get_category_for_extension and the cache built by organize_files       *)
(* ---------------------------------------------------------------------- *)
RECURSIVE prepopulate_exts(_, _, _)
prepopulate_exts(cache, category_name, extensions_list) ==
  IF extensions_list = <<>> THEN cache
  ELSE prepopulate_exts(Put(cache, lower(Head(extensions_list)), category_name),
                        category_name, Tail(extensions_list))

RECURSIVE prepopulate(_, _)
prepopulate(cache, types_map) ==
  IF types_map = <<>> THEN cache
  ELSE prepopulate(prepopulate_exts(cache, Head(types_map).category,
                                    Head(types_map).extensions),
                   Tail(types_map))

RECURSIVE build_exts(_, _, _)
build_exts(cache, category, extensions) ==
  IF extensions = <<>> THEN cache
  ELSE LET normalized_ext == lower(Head(extensions))
       IN build_exts(IF normalized_ext \notin DOMAIN cache
                       THEN Put(cache, normalized_ext, category) ELSE cache,
                     category, Tail(extensions))

RECURSIVE build_cache(_, _)
build_cache(cache, types_map) ==
  IF types_map = <<>> THEN cache
  ELSE build_cache(build_exts(cache, Head(types_map).category, Head(types_map).extensions),
                   Tail(types_map))

(* variant: a miss falls back to the first category of the map *)
get_category_fallback_first(extension, types_map, cache) ==
  IF extension = <<>> \/ lower(extension) \notin DOMAIN cache
    THEN [category |-> IF types_map = <<>> THEN DEFAULT_OTHERS_FOLDER
                       ELSE Head(types_map).category,
          cache |-> cache]
    ELSE [category |-> cache[lower(extension)], cache |-> cache]

(* the category and the cache after the call *)
get_category_for_extension(extension, types_map, cache) ==
  IF extension = <<>> THEN [category |-> DEFAULT_OTHERS_FOLDER, cache |-> cache]
  ELSE IF extension \in DOMAIN cache
    THEN [category |-> cache[extension], cache |-> cache]
  ELSE LET built == IF DOMAIN cache = {} THEN build_cache(cache, types_map) ELSE cache
       IN [category |-> IF lower(extension) \in DOMAIN built
                          THEN built[lower(extension)] ELSE DEFAULT_OTHERS_FOLDER,
           cache |-> built]

(* ---------------------------------------------------------------------- *)
(* handle_collision: entries are the names that exist in the parent       *)
(* ---------------------------------------------------------------------- *)
RECURSIVE collision_loop(_, _, _, _)
collision_loop(st, suf, counter, entries) ==
  IF numbered(st, counter, suf) \in entries
    THEN collision_loop(st, suf, counter + 1, entries)
    ELSE numbered(st, counter, suf)

(* variant: the first candidate is returned without the existence check *)
handle_collision_no_recheck(destination, entries) ==
  IF destination \notin entries THEN destination
  ELSE numbered(stem(destination), 1, suffix(destination))

(* variant: the intended path is returned as it is *)
handle_collision_keep(destination, entries) == destination

handle_collision(destination, entries) ==
  IF destination \notin entries THEN destination
  ELSE collision_loop(stem(destination), suffix(destination), 1, entries)

(* ---------------------------------------------------------------------- *)
(* The pieces of organize_files                                           *)
(* ---------------------------------------------------------------------- *)
kind_of(entries, name) == IF name \in DOMAIN entries THEN entries[name] ELSE "absent"

(* variant: exists() in place of is_dir() *)
target_ok_if_exists(kind) == kind # "missing"

(* target_dir_path.is_dir() *)
target_ok(kind) == kind = "dir"

known_folders(types_map) ==
  { types_map[i].category : i \in 1..Len(types_map) } \cup { DEFAULT_OTHERS_FOLDER }

(* variant: the log file is not protected *)
is_protected_without_log(name, kind, known) ==
  \/ name = SCRIPT_NAME
  \/ name = CONFIG_FILE_NAME
  \/ (kind = "dir" /\ name \in known)

(* the test that skips an entry before anything else *)
is_protected(name, kind, known) ==
  \/ name = SCRIPT_NAME
  \/ name = CONFIG_FILE_NAME
  \/ name = LOG_FILE_NAME
  \/ (kind = "dir" /\ name \in known)

(* variant: the folder is created in a dry run too *)
mkdir_in_any_mode(is_dry_run, folder_kind, env_ok) ==
  IF folder_kind = "dir" THEN "exists"
  ELSE IF folder_kind = "absent" /\ env_ok THEN "created"
  ELSE "failed"

(* destination_folder_path.mkdir(parents=True, exist_ok=True), real mode only;
   env_ok is whether the operating system lets a new folder be created *)
mkdir(is_dry_run, folder_kind, env_ok) ==
  IF is_dry_run THEN "not-attempted"
  ELSE IF folder_kind = "dir" THEN "exists"
  ELSE IF folder_kind = "absent" /\ env_ok THEN "created"
  ELSE "failed"

(* variant: the dry run reports the intended name, collision or not *)
dry_run_target_intended(item, entries) == item

(* the name the dry run reports *)
dry_run_target(item, entries) ==
  IF item \in entries THEN handle_collision(item, entries) ELSE item

(* variant: a failed move falls through to the moved-count *)
count_without_continue(outcome, moved, skipped) ==
  CASE outcome = "moved" -> << moved + 1, skipped >>
    [] outcome = "would-move" -> << moved + 1, skipped >>
    [] outcome = "mkdir-failed" -> << moved, skipped + 1 >>
    [] outcome = "move-failed" -> << moved + 1, skipped + 1 >>
    [] OTHER -> << moved, skipped >>

(* variant: a protected entry adds to the skipped-count *)
count_protected_as_skipped(outcome, moved, skipped) ==
  CASE outcome = "moved" -> << moved + 1, skipped >>
    [] outcome = "would-move" -> << moved + 1, skipped >>
    [] outcome = "mkdir-failed" -> << moved, skipped + 1 >>
    [] outcome = "move-failed" -> << moved, skipped + 1 >>
    [] outcome = "protected" -> << moved, skipped + 1 >>
    [] OTHER -> << moved, skipped >>

(* the counters after one entry: <<files_moved, files_skipped>> *)
count(outcome, moved, skipped) ==
  CASE outcome = "moved" -> << moved + 1, skipped >>
    [] outcome = "would-move" -> << moved + 1, skipped >>
    [] outcome = "mkdir-failed" -> << moved, skipped + 1 >>
    [] outcome = "move-failed" -> << moved, skipped + 1 >>
    [] OTHER -> << moved, skipped >>

(* ---------------------------------------------------------------------- *)
(* State                                                                  *)
(* ---------------------------------------------------------------------- *)
VARIABLES
  target_kind,                  \* "dir", "file" or "missing"
  top,                          \* entries of the target: name -> "file" | "dir" | "other"
  sub,                          \* content of each subfolder: name -> name -> origin of the file
  file_types_map,               \* CategoryMap, in iteration order
  dry_run,
  pc,                           \* "idle", "scan", "done", "aborted"
  todo,                         \* entries iterdir() has still to yield
  extension_to_category_cache,
  known_category_folders,
  files_moved,
  files_skipped,
  summary,                      \* the counts reported after the scan
  assigned,                     \* name -> category_name of this run
  record,                       \* name -> target logged as moved / would move
  failed,                       \* names skipped after an error
  last_collision,               \* the last call of handle_collision
  fs0,                          \* the filesystem when the run started
  prev,                         \* the outcome of the previous run
  runs                          \* "none", "first", "second"

vars == << target_kind, top, sub, file_types_map, dry_run, pc, todo,
           extension_to_category_cache, known_category_folders, files_moved,
           files_skipped, summary, assigned, record, failed, last_collision,
           fs0, prev, runs >>

NoSummary == [reported |-> FALSE, moved |-> 0, skipped |-> 0]
NoCall == [called |-> FALSE, destination |-> <<>>, entries |-> {}, result |-> <<>>]
NoRun == [status |-> "idle", dry_run |-> FALSE, record |-> EmptyMap, moved |-> 0,
          skipped |-> 0]

LooseChoices(universe) ==
  { E \in SUBSET universe :
      /\ Cardinality(E) <= MaxLoose
      /\ \A p, q \in E : p[1] = q[1] => p = q }

FolderChoices(E) ==
  { F \in SUBSET FolderNames : \A p \in E : p[1] \notin F }

top_of(E) == [n \in { p[1] : p \in E } |-> (CHOOSE p \in E : p[1] = n)[2]]

RECURSIVE total(_, _)
total(c, ds) ==
  IF ds = {} THEN 0
  ELSE LET d == CHOOSE x \in ds : TRUE IN Cardinality(c[d]) + total(c, ds \ {d})

ContentChoices(E, F) ==
  LET dirs == { p[1] : p \in { q \in E : q[2] = "dir" } } \cup F
  IN { c \in [dirs -> SUBSET SubNames] :
         /\ \A d \in dirs : d \notin ContentDirs => c[d] = {}
         /\ total(c, dirs) <= MaxPre }

sub_of(c) == [d \in DOMAIN c |-> [n \in c[d] |-> [dir |-> d, name |-> n]]]

Fresh ==
  /\ dry_run = FALSE
  /\ pc = "idle"
  /\ todo = {}
  /\ extension_to_category_cache = EmptyMap
  /\ known_category_folders = {}
  /\ files_moved = 0
  /\ files_skipped = 0
  /\ summary = NoSummary
  /\ assigned = EmptyMap
  /\ record = EmptyMap
  /\ failed = {}
  /\ last_collision = NoCall
  /\ fs0 = [top |-> top, sub |-> sub]
  /\ prev = NoRun
  /\ runs = "none"

Init ==
  /\ target_kind \in { "dir", "file", "missing" }
  /\ file_types_map \in CategoryMaps
  /\ \E E \in LooseChoices(LooseUniverse) : \E F \in FolderChoices(E) :
       \E c \in ContentChoices(E, F) :
         /\ (target_kind # "dir") => (E = {} /\ F = {})
         /\ top = top_of(E \cup { << f, "dir" >> : f \in F })
         /\ sub = sub_of(c)
  /\ Fresh

InitTwice ==
  /\ target_kind = "dir"
  /\ file_types_map \in CategoryMaps
  /\ \E E \in LooseChoices(TwiceUniverse) : \E F \in FolderChoices(E) :
       \E c \in ContentChoices(E, F) :
         /\ top = top_of(E \cup { << f, "dir" >> : f \in F })
         /\ sub = sub_of(c)
  /\ Fresh

(* ---------------------------------------------------------------------- *)
(* organize_files                                                         *)
(* ---------------------------------------------------------------------- *)
Outcome == [status |-> pc, dry_run |-> dry_run, record |-> record,
            moved |-> files_moved, skipped |-> files_skipped]

(* the target is no directory: the error is logged and the call returns *)
Abort(d) ==
  /\ pc = "idle"
  /\ ~target_ok(target_kind)
  /\ dry_run' = d
  /\ pc' = "aborted"
  /\ todo' = {}
  /\ extension_to_category_cache' = EmptyMap
  /\ known_category_folders' = {}
  /\ files_moved' = 0
  /\ files_skipped' = 0
  /\ summary' = NoSummary
  /\ assigned' = EmptyMap
  /\ record' = EmptyMap
  /\ failed' = {}
  /\ last_collision' = NoCall
  /\ fs0' = [top |-> top, sub |-> sub]
  /\ prev' = Outcome
  /\ runs' = IF runs = "none" THEN "first" ELSE "second"
  /\ UNCHANGED << target_kind, top, sub, file_types_map >>

(* the cache and the known folders are built, iterdir() lists the target *)
Enter(d) ==
  /\ target_ok(target_kind)
  /\ dry_run' = d
  /\ pc' = "scan"
  /\ todo' = DOMAIN top
  /\ extension_to_category_cache' = prepopulate(EmptyMap, file_types_map)
  /\ known_category_folders' = known_folders(file_types_map)
  /\ files_moved' = 0
  /\ files_skipped' = 0
  /\ summary' = NoSummary
  /\ assigned' = EmptyMap
  /\ record' = EmptyMap
  /\ failed' = {}
  /\ last_collision' = NoCall
  /\ fs0' = [top |-> top, sub |-> sub]
  /\ prev' = Outcome
  /\ runs' = IF runs = "none" THEN "first" ELSE "second"
  /\ UNCHANGED << target_kind, top, sub, file_types_map >>

(* the call of organize_files *)
Begin(d) == pc = "idle" /\ Enter(d)

(* a real run on the directory the first call has left *)
Again == pc = "done" /\ runs = "first" /\ Enter(FALSE)

(* one iteration on a protected name or a known category folder *)
SkipProtected(item) ==
  /\ pc = "scan"
  /\ item \in todo
  /\ is_protected(item, kind_of(top, item), known_category_folders)
  /\ todo' = todo \ { item }
  /\ files_moved' = count("protected", files_moved, files_skipped)[1]
  /\ files_skipped' = count("protected", files_moved, files_skipped)[2]
  /\ UNCHANGED << target_kind, top, sub, file_types_map, dry_run, pc,
                  extension_to_category_cache, known_category_folders, summary,
                  assigned, record, failed, last_collision, fs0, prev, runs >>

(* one iteration on a subdirectory, or on an entry that is neither file nor directory *)
SkipNonFile(item) ==
  /\ pc = "scan"
  /\ item \in todo
  /\ ~is_protected(item, kind_of(top, item), known_category_folders)
  /\ kind_of(top, item) # "file"
  /\ todo' = todo \ { item }
  /\ files_moved' = count("not-a-file", files_moved, files_skipped)[1]
  /\ files_skipped' = count("not-a-file", files_moved, files_skipped)[2]
  /\ UNCHANGED << target_kind, top, sub, file_types_map, dry_run, pc,
                  extension_to_category_cache, known_category_folders, summary,
                  assigned, record, failed, last_collision, fs0, prev, runs >>

(* one iteration on a file; mkdir_env_ok and move_env_ok are whether the
   operating system lets the folder be created and the file be moved *)
ProcessFile(item, mkdir_env_ok, move_env_ok) ==
  /\ pc = "scan"
  /\ item \in todo
  /\ ~is_protected(item, kind_of(top, item), known_category_folders)
  /\ kind_of(top, item) = "file"
  /\ LET file_extension == lower(suffix(item))
         res == get_category_for_extension(file_extension, file_types_map,
                                           extension_to_category_cache)
         category_name == res.category
         made == mkdir(dry_run, kind_of(top, category_name), mkdir_env_ok)
         top1 == IF made = "created" THEN Put(top, category_name, "dir") ELSE top
         sub1 == IF made = "created" THEN Put(sub, category_name, EmptyMap) ELSE sub
         entries == IF category_name \in DOMAIN sub1
                      THEN DOMAIN sub1[category_name] ELSE {}
         resolves == made # "failed" /\ (~dry_run \/ item \in entries)
         final == IF dry_run THEN dry_run_target(item, entries)
                  ELSE handle_collision(item, entries)
         outcome == IF made = "failed" THEN "mkdir-failed"
                    ELSE IF dry_run THEN "would-move"
                    ELSE IF move_env_ok THEN "moved"
                    ELSE "move-failed"
         counted == count(outcome, files_moved, files_skipped)
     IN /\ extension_to_category_cache' = res.cache
        /\ assigned' = Put(assigned, item, category_name)
        /\ last_collision' =
             IF resolves
               THEN [called |-> TRUE, destination |-> item, entries |-> entries,
                     result |-> handle_collision(item, entries)]
               ELSE NoCall
        /\ top' = IF outcome = "moved" THEN Remove(top1, item) ELSE top1
        /\ sub' = IF outcome = "moved"
                    THEN Put(sub1, category_name,
                             Put(sub1[category_name], final, [dir |-> <<>>, name |-> item]))
                    ELSE sub1
        /\ record' = IF outcome \in { "moved", "would-move" }
                       THEN Put(record, item, [folder |-> category_name, name |-> final])
                       ELSE record
        /\ failed' = IF outcome \in { "mkdir-failed", "move-failed" }
                       THEN failed \cup { item } ELSE failed
        /\ files_moved' = counted[1]
        /\ files_skipped' = counted[2]
  /\ todo' = todo \ { item }
  /\ UNCHANGED << target_kind, file_types_map, dry_run, pc, known_category_folders,
                  summary, fs0, prev, runs >>

(* the loop is over: the counts are reported *)
Finish ==
  /\ pc = "scan"
  /\ todo = {}
  /\ pc' = "done"
  /\ summary' = [reported |-> TRUE, moved |-> files_moved, skipped |-> files_skipped]
  /\ UNCHANGED << target_kind, top, sub, file_types_map, dry_run, todo,
                  extension_to_category_cache, known_category_folders, files_moved,
                  files_skipped, assigned, record, failed, last_collision, fs0, prev,
                  runs >>

Next ==
  \/ \E d \in BOOLEAN : Abort(d)
  \/ \E d \in BOOLEAN : Begin(d)
  \/ \E item \in todo : SkipProtected(item)
  \/ \E item \in todo : SkipNonFile(item)
  \/ \E item \in todo, mkdir_env_ok \in BOOLEAN, move_env_ok \in BOOLEAN :
       ProcessFile(item, mkdir_env_ok, move_env_ok)
  \/ Finish

Spec == Init /\ [][Next]_vars

NextTwice ==
  \/ \E d \in BOOLEAN : Begin(d)
  \/ Again
  \/ \E item \in todo : SkipProtected(item)
  \/ \E item \in todo : SkipNonFile(item)
  \/ \E item \in todo, mkdir_env_ok \in BOOLEAN, move_env_ok \in BOOLEAN :
       ProcessFile(item, mkdir_env_ok, move_env_ok)
  \/ Finish

SpecTwice == InitTwice /\ [][NextTwice]_vars

(* ---------------------------------------------------------------------- *)
(* What the statements below speak of                                     *)
(* ---------------------------------------------------------------------- *)
Scanning == pc \in { "scan", "done" }

ProtectedNames == { SCRIPT_NAME, CONFIG_FILE_NAME, LOG_FILE_NAME }

(* the entries the scan has to organize *)
OrganizableFiles(entries) ==
  { n \in DOMAIN entries : entries[n] = "file" /\ n \notin ProtectedNames }

ListedUnder(i, f) ==
  /\ suffix(f) # <<>>
  /\ \E k \in 1..Len(file_types_map[i].extensions) :
       lower(file_types_map[i].extensions[k]) = lower(suffix(f))

Unlisted(f) == \A i \in 1..Len(file_types_map) : ~ListedUnder(i, f)

(* the places where the file that was the top-level entry f now is *)
Places(f) ==
  (IF kind_of(top, f) = "file" THEN { << <<>>, f >> } ELSE {})
  \cup { q \in UNION { { << d, n >> : n \in DOMAIN sub[d] } : d \in DOMAIN sub } :
           sub[q[1]][q[2]] = [dir |-> <<>>, name |-> f] }

ExistedBefore(d, n) == d \in DOMAIN fs0.sub /\ n \in DOMAIN fs0.sub[d]

(* the file f has been moved to the target its record names *)
Relocated(f) ==
  /\ f \in DOMAIN record
  /\ Places(f) = { << record[f].folder, record[f].name >> }

(* ---------------------------------------------------------------------- *)
(* C1: a file whose extension is listed, whatever the letter case, under  *)
(* category C and under no category iterated before C is assigned to C:   *)
(* the first category that lists an extension wins.                       *)
(* ---------------------------------------------------------------------- *)
C1_FirstListedCategoryWins ==
  \A f \in DOMAIN assigned : \A i \in 1..Len(file_types_map) :
    (ListedUnder(i, f) /\ \A j \in 1..(i - 1) : ~ListedUnder(j, f))
      => assigned[f] = file_types_map[i].category

(* ---------------------------------------------------------------------- *)
(* C2: handle_collision(P) is P when P does not exist, and otherwise      *)
(* stem_N.ext for the smallest N >= 1 such that stem_N.ext does not       *)
(* exist; the path it returns never exists.  Stated of the call each      *)
(* iteration makes and of every name in every folder of every state.      *)
(* ---------------------------------------------------------------------- *)
CollisionFree(P, S, R) ==
  /\ R \notin S
  /\ (P \notin S => R = P)
  /\ (P \in S =>
        \E n \in 1..(Cardinality(S) + 1) :
          /\ R = numbered(stem(P), n, suffix(P))
          /\ \A k \in 1..(n - 1) : numbered(stem(P), k, suffix(P)) \in S)

ProbeNames == { p[1] : p \in LooseUniverse } \cup SubNames

C2_CollisionResult ==
  /\ last_collision.called =>
       CollisionFree(last_collision.destination, last_collision.entries,
                     last_collision.result)
  /\ \A d \in DOMAIN sub : \A P \in ProbeNames :
       CollisionFree(P, DOMAIN sub[d], handle_collision(P, DOMAIN sub[d]))

C2_Witness ==
  /\ last_collision.called
  /\ last_collision.destination \in last_collision.entries
  /\ last_collision.result = numbered(stem(last_collision.destination), 2,
                                      suffix(last_collision.destination))

(* ---------------------------------------------------------------------- *)
(* C3: a dry run leaves the target directory and every subfolder as they  *)
(* were when it started.                                                  *)
(* ---------------------------------------------------------------------- *)
C3_DryRunNoChange ==
  (dry_run /\ Scanning) =>
    /\ target_kind = "dir"
    /\ top = fs0.top
    /\ sub = fs0.sub

C3_Witness ==
  /\ dry_run
  /\ pc = "done"
  /\ \E f \in DOMAIN record : record[f].name # f
  /\ \E f \in DOMAIN record : record[f].folder \notin DOMAIN top

C5_UnlistedMovedToOthers ==
  \A f \in DOMAIN assigned :
    Unlisted(f) =>
      /\ assigned[f] = DEFAULT_OTHERS_FOLDER
      /\ ~dry_run => (Relocated(f) /\ record[f].folder = DEFAULT_OTHERS_FOLDER)

(* ---------------------------------------------------------------------- *)
(* C5, amended: such a file resolves to Others, and a real run moves it   *)
(* into the Others folder unless creating that folder or the move fails;  *)
(* it then stays where it was and is counted as skipped.                  *)
(* ---------------------------------------------------------------------- *)
C5_UnlistedResolveToOthers ==
  \A f \in DOMAIN assigned :
    Unlisted(f) =>
      /\ assigned[f] = DEFAULT_OTHERS_FOLDER
      /\ ~dry_run =>
           \/ Relocated(f) /\ record[f].folder = DEFAULT_OTHERS_FOLDER
           \/ f \in failed /\ Places(f) = { << <<>>, f >> }

C5_Witness ==
  /\ ~dry_run
  /\ file_types_map # <<>>
  /\ \E f \in DOMAIN record :
       /\ Unlisted(f)
       /\ suffix(f) # <<>>
       /\ Relocated(f)
  /\ \E f \in DOMAIN record : Unlisted(f) /\ suffix(f) = <<>> /\ Relocated(f)

C7_NoScanWithoutDirectory ==
  target_kind # "dir" =>
    /\ pc \in { "idle", "aborted" }
    /\ top = EmptyMap
    /\ sub = EmptyMap
    /\ todo = {}
    /\ assigned = EmptyMap
    /\ record = EmptyMap
    /\ failed = {}
    /\ files_moved = 0
    /\ files_skipped = 0
    /\ ~summary.reported

C7_Witness ==
  /\ pc = "aborted"
  /\ target_kind = "missing"
  /\ dry_run

(* ---------------------------------------------------------------------- *)
(* C8, as stated: the target a dry run reports for a file is the          *)
(* destination the file gets in a real run without failures started from  *)
(* the same state; so the targets reported for two files differ, and the  *)
(* dry run's moved-count is the real run's.                               *)
(* ---------------------------------------------------------------------- *)
PreviewThenRun ==
  /\ runs = "second"
  /\ prev.status = "done"
  /\ prev.dry_run
  /\ ~dry_run
  /\ Scanning

C8_PreviewIsDestination ==
  /\ (PreviewThenRun /\ failed = {}) =>
       \A f \in DOMAIN record : f \in DOMAIN prev.record /\ record[f] = prev.record[f]
  /\ (dry_run /\ pc = "done") =>
       \A f, g \in DOMAIN record : f # g => record[f] # record[g]
  /\ (PreviewThenRun /\ failed = {} /\ pc = "done") => files_moved = prev.moved

(* ---------------------------------------------------------------------- *)
(* C8, amended: the target a dry run reports for a file is the            *)
(* destination the file gets in a real run without failures started from  *)
(* the same state, unless that run has already moved another file to the  *)
(* reported path; the dry run's moved-count is the real run's.            *)
(* ---------------------------------------------------------------------- *)
C8_PreviewUnlessTaken ==
  /\ (PreviewThenRun /\ failed = {}) =>
       \A f \in DOMAIN record :
         /\ f \in DOMAIN prev.record
         /\ \/ record[f] = prev.record[f]
            \/ \E g \in DOMAIN record \ { f } : record[g] = prev.record[f]
  /\ (PreviewThenRun /\ failed = {} /\ pc = "done") => files_moved = prev.moved

C8_Witness ==
  /\ PreviewThenRun
  /\ pc = "done"
  /\ failed = {}
  /\ \E f \in DOMAIN record : record[f].name # f /\ record[f] = prev.record[f]
  /\ files_moved = 2

(* ---------------------------------------------------------------------- *)
(* C9: a real run loses and overwrites nothing: every file that was in a  *)
(* subfolder is still there under its name, every file that was a         *)
(* top-level entry is at one place, its own (protected, skipped or not    *)
(* yet reached) or a path of its category folder that did not exist, and  *)
(* no two files are moved to one path.                                    *)
(* ---------------------------------------------------------------------- *)
C9_NothingLost ==
  (~dry_run /\ Scanning) =>
    /\ \A d \in DOMAIN fs0.sub :
         /\ d \in DOMAIN sub
         /\ \A n \in DOMAIN fs0.sub[d] :
              n \in DOMAIN sub[d] /\ sub[d][n] = fs0.sub[d][n]
    /\ \A f \in { n \in DOMAIN fs0.top : fs0.top[n] = "file" } :
         \/ /\ Places(f) = { << <<>>, f >> }
            /\ f \in ProtectedNames \cup failed \cup todo
         \/ /\ Relocated(f)
            /\ record[f].folder = assigned[f]
            /\ ~ExistedBefore(record[f].folder, record[f].name)
    /\ \A f, g \in DOMAIN record : f # g => record[f] # record[g]

C9_Witness ==
  /\ ~dry_run
  /\ pc = "done"
  /\ \E f \in DOMAIN record :
       /\ record[f].name # f
       /\ ExistedBefore(record[f].folder, f)
  /\ files_moved = 2

(* ---------------------------------------------------------------------- *)
(* C10: after a real run that skipped nothing, a second real run with the *)
(* same map moves nothing, creates nothing and counts nothing.            *)
(* ---------------------------------------------------------------------- *)
RunThenRerun ==
  /\ runs = "second"
  /\ prev.status = "done"
  /\ ~prev.dry_run
  /\ prev.skipped = 0
  /\ ~dry_run
  /\ Scanning

====
